---- MODULE Spec2Model ----
(***************************************************************************)
(* A model of mod/mod.py: the Mod cog with custom messages.                 *)
(*                                                                         *)
(*   SpecRender   the message template engine (transform_parameter and     *)
(*                transform_message), applied to bounded templates and     *)
(*                binding contexts.                                        *)
(*   SpecConvert  RawUserIdConverter.convert, applied to bounded arguments. *)
(*   Spec         the moderation commands kick, tempban, softban, unban and *)
(*                ban_user, run one after another on a guild.               *)
(*   SpecBanUser  concurrent ban_user invocations for non-members, each     *)
(*                taking one step per await.                                *)
(*                                                                         *)
(* Python strings are modelled as sequences of one-character strings, so   *)
(* that scanning, splitting and replacing are computed as the code does.   *)
(***************************************************************************)
EXTENDS Integers, Sequences, FiniteSets, TLC

VARIABLES
    phase,       \* "call" before the operation under study has run, "done" after
    message,     \* transform_message: the template
    objects,     \* transform_message: the binding context
    rendered,    \* transform_message: the outcome of the call
    argument,    \* RawUserIdConverter.convert: the argument
    converted,   \* RawUserIdConverter.convert: the outcome of the call
    members,     \* the ids of the guild's members
    bans,        \* the ids the guild has banned
    current_tempbans,  \* config.guild(guild).current_tempbans, a list of ids
    banned_until,      \* the ids whose config.member(..).banned_until is set
    last,        \* the last command invocation and the calls it made
    tasks        \* the concurrent ban_user invocations, each at one of its awaits

renderVars == <<message, objects, rendered>>
convertVars == <<argument, converted>>
guildVars == <<members, bans, current_tempbans, banned_until, last>>

vars == <<phase, renderVars, convertVars, guildVars, tasks>>

----------------------------------------------------------------------------
(* Bounds *)

\* The number of pieces a template is concatenated from.
MaxPieces == 2

\* The number of digits in an argument of the converter.
MaxDigits == 23

\* The number of users, with ids 1..MaxUsers.
MaxUsers == 3

\* The longest current_tempbans list.
MaxTempbans == 3

\* The number of ban_user invocations running at once.
MaxTasks == 2

----------------------------------------------------------------------------
(* Strings *)

\* The concatenation of a sequence of strings.
RECURSIVE Concat(_)
Concat(ss) == IF ss = <<>> THEN <<>> ELSE Head(ss) \o Concat(Tail(ss))

\* The first index >= i at which character c occurs in s, or 0.
RECURSIVE IndexFrom(_, _, _)
IndexFrom(s, c, i) ==
    IF i > Len(s) THEN 0
    ELSE IF s[i] = c THEN i
    ELSE IndexFrom(s, c, i + 1)

\* old occurs in s at index i.
OccursAt(s, old, i) ==
    /\ i + Len(old) - 1 <= Len(s)
    /\ SubSeq(s, i, i + Len(old) - 1) = old

\* old occurs somewhere in s.
Contains(s, old) == \E i \in 1..Len(s) : OccursAt(s, old, i)

\* re.findall(r"{([^}]+)\}", message): the leftmost, non-overlapping matches
\* of an opening brace, one or more characters other than a closing brace,
\* and a closing brace; each match yields the text between the braces.
RECURSIVE findall_from(_, _)
findall_from(s, i) ==
    IF i > Len(s) THEN <<>>
    ELSE IF s[i] # "{" THEN findall_from(s, i + 1)
    ELSE LET j == IndexFrom(s, "}", i + 1) IN
         IF j = 0 THEN <<>>
         ELSE IF j = i + 1 THEN findall_from(s, i + 1)
         ELSE <<SubSeq(s, i + 1, j - 1)>> \o findall_from(s, j + 1)

findall(s) == findall_from(s, 1)

\* str.replace(old, new) for a non-empty old: every non-overlapping
\* occurrence of old, found left to right in s, is replaced by new; the
\* text put in is not scanned within the same call.
RECURSIVE replace_from(_, _, _, _)
replace_from(s, old, new, i) ==
    IF i > Len(s) THEN <<>>
    ELSE IF OccursAt(s, old, i) THEN new \o replace_from(s, old, new, i + Len(old))
    ELSE <<s[i]>> \o replace_from(s, old, new, i + 1)

replace(s, old, new) == replace_from(s, old, new, 1)

\* str.split("."): the parts of s between the dots (always at least one).
RECURSIVE split(_)
split(s) ==
    LET j == IndexFrom(s, ".", 1) IN
    IF j = 0 THEN <<s>>
    ELSE <<SubSeq(s, 1, j - 1)>> \o split(SubSeq(s, j + 1, Len(s)))

\* A faulty variant: the underscore test left out.
startswith_underscore_never(second) == FALSE

\* second.startswith("_")
startswith_underscore(second) == Len(second) >= 1 /\ second[1] = "_"

----------------------------------------------------------------------------
(* Values of a binding context *)

\* An object of a binding context: its string form, str(obj), and its
\* attributes, each with the string form of its value.
NoAttrs == <<>>

Obj(s, attrs) == [str |-> s, attrs |-> attrs]

\* str(obj)
str(obj) == obj.str

\* A faulty variant: the attribute is never found.
getattr_missing(obj, name, default) == default

\* getattr(obj, name, default)
getattr(obj, name, default) ==
    IF name \in DOMAIN obj.attrs THEN obj.attrs[name] ELSE default

----------------------------------------------------------------------------
(* The outcome of a call: a returned value or a raised exception *)

Return(v) == [exc |-> "none", val |-> v]

Raise(e) == [exc |-> e, val |-> <<>>]

----------------------------------------------------------------------------
(* Mod.transform_parameter, Mod.transform_message *)

\* A faulty variant: the braces are not put back.
raw_result_unwrapped(result) == result

\* raw_result = "{" + result + "}"
raw_result(result) == <<"{">> \o result \o <<"}">>

\* A faulty variant: parts after the second are ignored.
unpack_first_two(result) ==
    LET parts == split(result) IN
    IF Len(parts) < 2 THEN Raise("ValueError")
    ELSE Return(<<parts[1], parts[2]>>)

\* first, second = result.split("."): unpacking raises ValueError unless
\* the split yields exactly two parts.
unpack_split(result) ==
    LET parts == split(result) IN
    IF Len(parts) # 2 THEN Raise("ValueError")
    ELSE Return(<<parts[1], parts[2]>>)

\* The dotted branch of transform_parameter, after a successful unpacking.
resolve_dotted(result, first, second, objs) ==
    IF first \in DOMAIN objs /\ ~startswith_underscore(second)
    THEN Return(getattr(objs[first], second, raw_result(result)))
    ELSE Return(raw_result(result))

\* A faulty variant: the bare-name lookup left out.
transform_parameter_no_bare(result, objs) ==
    LET u == unpack_split(result) IN
    IF u.exc = "ValueError" THEN Return(raw_result(result))
    ELSE resolve_dotted(result, u.val[1], u.val[2], objs)

\* A faulty variant: the except clause left out.
transform_parameter_no_except(result, objs) ==
    IF result \in DOMAIN objs THEN Return(str(objs[result]))
    ELSE LET u == unpack_split(result) IN
         IF u.exc = "ValueError" THEN u
         ELSE resolve_dotted(result, u.val[1], u.val[2], objs)

\* Mod.transform_parameter
transform_parameter(result, objs) ==
    IF result \in DOMAIN objs THEN Return(str(objs[result]))
    ELSE LET u == unpack_split(result) IN
         IF u.exc = "ValueError" THEN Return(raw_result(result))
         ELSE resolve_dotted(result, u.val[1], u.val[2], objs)

\* The for loop of transform_message over results[k..]: an exception of
\* transform_parameter ends the call.
RECURSIVE transform_loop(_, _, _, _)
transform_loop(msg, results, k, objs) ==
    IF k > Len(results) THEN Return(msg)
    ELSE LET param == transform_parameter(results[k], objs) IN
         IF param.exc # "none" THEN param
         ELSE transform_loop(
                  replace(msg, <<"{">> \o results[k] \o <<"}">>, param.val),
                  results, k + 1, objs)

\* Mod.transform_message
transform_message(msg, objs) == transform_loop(msg, findall(msg), 1, objs)

----------------------------------------------------------------------------
(* The templates and binding contexts the engine is applied to *)

\* The placeholder text of an expression.
Placeholder(e) == <<"{">> \o e \o <<"}">>

\* Placeholder expressions: bare names, dotted paths, malformed paths.
NameA == <<"a">>
NameB == <<"b">>
NameC == <<"c">>
AttrX == <<"x">>
AttrY == <<"y">>
AttrP == <<"_", "p">>

BareExprs == {NameA, NameB, NameC}

DottedExprs ==
    {f \o <<".">> \o s : f \in {NameA, NameC}, s \in {AttrX, AttrP}}

MalformedExprs ==
    { NameA \o <<".">> \o AttrX \o <<".">> \o AttrY,   \* a.x.y
      NameA \o <<".">>,                                \* a.
      <<".">> \o AttrX }                               \* .x

Exprs == BareExprs \cup DottedExprs \cup MalformedExprs

\* The pieces of a template: a placeholder, literal text, a lone brace,
\* empty braces.
Pieces ==
    {Placeholder(e) : e \in Exprs} \cup {<<"t">>, <<"{">>, <<"}">>, <<"{", "}">>}

RECURSIVE PieceSeqs(_)
PieceSeqs(n) ==
    IF n = 0 THEN {<<>>}
    ELSE LET shorter == PieceSeqs(n - 1) IN
         shorter \cup {Append(ps, p) : ps \in {q \in shorter : Len(q) = n - 1},
                                       p \in Pieces}

Templates == {Concat(ps) : ps \in PieceSeqs(MaxPieces)}

\* String forms of values: plain text, text holding another placeholder,
\* text holding the placeholder it is inserted for.
TextV == <<"v">>
TextB == Placeholder(NameB)
TextAT == Placeholder(NameA) \o <<"t">>

\* Objects with attributes (a member, a guild): a public attribute x and a
\* private attribute _p, each present or not.
AttrMaps ==
    { NoAttrs } \cup
    { (AttrX :> <<"w">>) } \cup
    { (AttrP :> s) : s \in {<<"s">>, <<"r">>} } \cup
    { (AttrX :> <<"w">>) @@ (AttrP :> s) : s \in {<<"s">>, <<"r">>} }

RichObjects == {Obj(s, am) : s \in {TextV, TextB, TextAT}, am \in AttrMaps}

\* Plain values (a reason, a day count): no attribute of the model's names.
PlainObjects == {Obj(s, NoAttrs) : s \in {TextV, TextAT}}

Contexts ==
    { <<>> } \cup
    { (NameA :> o) : o \in RichObjects } \cup
    { (NameB :> o) : o \in PlainObjects } \cup
    { (NameA :> o) @@ (NameB :> p) : o \in RichObjects, p \in PlainObjects }

----------------------------------------------------------------------------
(* SpecRender: one call of transform_message *)

\* The variables of the operations a specification does not exercise.
IdleRender == message = <<>> /\ objects = <<>> /\ rendered = Return(<<>>)
IdleConvert == argument = <<>> /\ converted = Return(<<>>)
IdleGuild ==
    /\ members = {} /\ bans = {} /\ current_tempbans = <<>>
    /\ banned_until = {}
    /\ last = [op |-> "none", author |-> 0, kind |-> "none", id |-> 0,
               events |-> <<>>, result |-> "none"]
IdleTasks == tasks = <<>>

InitRender ==
    /\ message \in Templates
    /\ objects \in Contexts
    /\ rendered = Return(<<>>)
    /\ phase = "call"
    /\ IdleConvert
    /\ IdleGuild
    /\ IdleTasks

\* message = self.transform_message(message, objects)
Render ==
    /\ phase = "call"
    /\ rendered' = transform_message(message, objects)
    /\ phase' = "done"
    /\ UNCHANGED <<message, objects, convertVars, guildVars, tasks>>

NextRender == Render

SpecRender == InitRender /\ [][NextRender]_vars

----------------------------------------------------------------------------
(* RawUserIdConverter *)

\* The repetition counts of ID_REGEX, [0-9]{15,20}, and of
\* USER_MENTION_REGEX, [0-9]{15,21}.
IdMinDigits == 15
IdMaxDigits == 20
MentionMinDigits == 15
MentionMaxDigits == 21

DigitChars == {"0", "1"}

\* The number of digits s holds from index i on, before any other character.
RECURSIVE DigitRun(_, _)
DigitRun(s, i) ==
    IF i <= Len(s) /\ s[i] \in DigitChars THEN 1 + DigitRun(s, i + 1) ELSE 0

\* s is at its end at index i, as $ takes it: past the last character, or at
\* a newline that is the last character.
AtEnd(s, i) == i = Len(s) + 1 \/ (i = Len(s) /\ s[i] = "\n")

NoMatch == [matched |-> FALSE, group |-> <<>>]

Match(g) == [matched |-> TRUE, group |-> g]

\* ID_REGEX.match(argument): at the start of the argument, 15 to 20 digits,
\* as many as there are; what follows them is not looked at.
ID_REGEX_match(s) ==
    LET n == DigitRun(s, 1) IN
    IF n >= IdMinDigits
    THEN Match(SubSeq(s, 1, IF n > IdMaxDigits THEN IdMaxDigits ELSE n))
    ELSE NoMatch

\* USER_MENTION_REGEX.match(argument): <@, an optional !, 15 to 21 digits,
\* > and the end of the argument.
USER_MENTION_REGEX_match(s) ==
    IF ~(Len(s) >= 2 /\ s[1] = "<" /\ s[2] = "@") THEN NoMatch
    ELSE LET d == IF Len(s) >= 3 /\ s[3] = "!" THEN 4 ELSE 3
             n == DigitRun(s, d)
         IN  IF /\ n >= MentionMinDigits
                /\ n <= MentionMaxDigits
                /\ d + n <= Len(s)
                /\ s[d + n] = ">"
                /\ AtEnd(s, d + n + 1)
             THEN Match(SubSeq(s, d, d + n - 1)) ELSE NoMatch

\* int(digits): the number, written without leading zeros.
RECURSIVE int(_)
int(ds) ==
    IF Len(ds) > 1 /\ ds[1] = "0" THEN int(Tail(ds)) ELSE ds

\* RawUserIdConverter.convert
convert(s) ==
    LET m == IF ID_REGEX_match(s).matched
             THEN ID_REGEX_match(s) ELSE USER_MENTION_REGEX_match(s)
    IN  IF m.matched THEN Return(int(m.group)) ELSE Raise("BadArgument")

\* The arguments: an optional mention opening, a run of digits, a tail.
RECURSIVE Ones(_)
Ones(n) == IF n = 0 THEN <<>> ELSE <<"1">> \o Ones(n - 1)

DigitRuns ==
    {<<>>} \cup {<<d>> \o Ones(n - 1) : d \in DigitChars, n \in 1..MaxDigits}

Arguments ==
    { pre \o ds \o post :
        pre \in {<<>>, <<"<", "@">>, <<"<", "@", "!">>},
        ds \in DigitRuns,
        post \in {<<>>, <<">">>, <<"a">>, <<">", "a">>, <<">", "\n">>} }

InitConvert ==
    /\ argument \in Arguments
    /\ converted = Return(<<>>)
    /\ phase = "call"
    /\ IdleRender
    /\ IdleGuild
    /\ IdleTasks

Convert ==
    /\ phase = "call"
    /\ converted' = convert(argument)
    /\ phase' = "done"
    /\ UNCHANGED <<argument, renderVars, guildVars, tasks>>

NextConvert == Convert

SpecConvert == InitConvert /\ [][NextConvert]_vars

----------------------------------------------------------------------------
(* The moderation commands *)

Ids == 1..MaxUsers

\* guild.owner
GuildOwner == 1

\* The lists without a repeated id, over a set of ids.
RECURSIVE ListsOver(_, _)
ListsOver(S, n) ==
    IF n = 0 THEN {<<>>}
    ELSE LET shorter == ListsOver(S, n - 1) IN
         shorter \cup
         { Append(l, x) : l \in {q \in shorter : Len(q) = n - 1}, x \in S }

NoRepeat(l) == \A i, j \in 1..Len(l) : l[i] = l[j] => i = j

InList(x, l) == \E i \in 1..Len(l) : l[i] = x

\* list.remove(x): the list without the first occurrence of x.
RECURSIVE Remove(_, _)
Remove(l, x) ==
    IF l = <<>> THEN <<>>
    ELSE IF Head(l) = x THEN Tail(l)
    ELSE <<Head(l)>> \o Remove(Tail(l), x)

\* A variant in which the call returns the time (timezone imported).
datetime_now_utc_returns == Return(<<>>)

\* datetime.now(datetime.timezone.utc), with datetime the class imported
\* from the datetime module: the class has no attribute timezone.
datetime_now_utc == Raise("AttributeError")

\* author == user: users and members are equal when their ids are; a bare
\* id object is equal to no member.
author_eq(author, kind, id) == kind \in {"Member", "User"} /\ id = author

\* The record of an invocation: the command, its author and target, the
\* calls it made on the guild, the config, the mod log and the channel, in
\* order, and how it ended. Direct messages to the target change nothing
\* here and are left out.
Invocation(op, author, kind, id, events, result) ==
    [op |-> op, author |-> author, kind |-> kind, id |-> id,
     events |-> events, result |-> result]

\* The checks kick, tempban and ban_user make before acting on a member; ""
\* when all pass.
member_checks(author, member, allowed, botBelow) ==
    IF author_eq(author, "Member", member) THEN "ctx.send:self_harm"
    ELSE IF ~allowed THEN "ctx.send:hierarchy"
    ELSE IF botBelow \/ member = GuildOwner THEN "ctx.send:discord_hierarchy"
    ELSE ""

\* The checks softban makes.
softban_checks(author, member, allowed) ==
    IF author_eq(author, "Member", member) THEN "ctx.send:self_harm"
    ELSE IF ~allowed THEN "ctx.send:hierarchy"
    ELSE ""

InitGuild ==
    /\ bans \in SUBSET (Ids \ {GuildOwner})
    /\ members = Ids \ bans
    /\ current_tempbans \in {l \in ListsOver(bans, MaxTempbans) : NoRepeat(l)}
    /\ banned_until = {}
    /\ last = Invocation("none", 0, "none", 0, <<>>, "none")
    /\ phase = "run"
    /\ IdleRender
    /\ IdleConvert
    /\ IdleTasks

\* Mod.kick
Kick(author, member, allowed, botBelow, outcome) ==
    LET refusal == member_checks(author, member, allowed, botBelow) IN
    /\ author \in members /\ member \in members
    /\ IF refusal # ""
       THEN /\ last' = Invocation("kick", author, "Member", member,
                                  <<refusal>>, "refused")
            /\ UNCHANGED members
       ELSE IF outcome = "ok"
       THEN /\ members' = members \ {member}
            /\ last' = Invocation("kick", author, "Member", member,
                   <<"guild.kick", "modlog.create_case",
                                      "transform_message", "ctx.send:message">>,
                   "done")
       ELSE /\ last' = Invocation("kick", author, "Member", member,
                   <<"guild.kick">> \o
                       (IF outcome = "Forbidden"
                        THEN <<"ctx.send:not_allowed">> ELSE <<"log.exception">>),
                   "failed")
            /\ UNCHANGED members
    /\ UNCHANGED <<bans, current_tempbans, banned_until>>
    /\ UNCHANGED <<phase, renderVars, convertVars, tasks>>

\* Mod.tempban
Tempban(author, member, days, allowed, botBelow, outcome) ==
    LET refusal == member_checks(author, member, allowed, botBelow)
        booked == <<"banned_until.set", "current_tempbans.append">>
    IN
    /\ author \in members /\ member \in members
    /\ IF refusal # ""
       THEN /\ last' = Invocation("tempban", author, "Member", member,
                                  <<refusal>>, "refused")
            /\ UNCHANGED <<members, bans, current_tempbans, banned_until>>
       ELSE IF datetime_now_utc.exc # "none"
       THEN /\ last' = Invocation("tempban", author, "Member", member,
                                  <<"raise:" \o datetime_now_utc.exc>>, "raised")
            /\ UNCHANGED <<members, bans, current_tempbans, banned_until>>
       ELSE IF ~(0 <= days /\ days <= 7)
       THEN /\ last' = Invocation("tempban", author, "Member", member,
                                  <<"ctx.send:invalid_days">>, "refused")
            /\ UNCHANGED <<members, bans, current_tempbans, banned_until>>
       ELSE /\ Len(current_tempbans) < MaxTempbans
            /\ banned_until' = banned_until \cup {member}
            /\ current_tempbans' = Append(current_tempbans, member)
            /\ IF outcome = "ok"
               THEN /\ bans' = bans \cup {member}
                    /\ members' = members \ {member}
                    /\ last' = Invocation("tempban", author, "Member", member,
                           booked \o
                               <<"guild.ban", "modlog.create_case",
                                 "transform_message", "ctx.send:message">>,
                           "done")
               ELSE /\ last' = Invocation("tempban", author, "Member", member,
                           booked \o
                               <<"guild.ban", "ctx.send:ban_failed">>,
                           "failed")
                    /\ UNCHANGED <<members, bans>>
    /\ UNCHANGED <<phase, renderVars, convertVars, tasks>>

\* Mod.softban
Softban(author, member, allowed, outcome, unbanOutcome) ==
    LET refusal == softban_checks(author, member, allowed) IN
    /\ author \in members /\ member \in members
    /\ member = GuildOwner => outcome # "ok"    \* the owner cannot be banned
    /\ IF refusal # ""
       THEN /\ last' = Invocation("softban", author, "Member", member,
                                  <<refusal>>, "refused")
            /\ UNCHANGED <<members, bans>>
       ELSE IF outcome # "ok"
       THEN /\ last' = Invocation("softban", author, "Member", member,
                   <<"guild.ban">> \o
                       (IF outcome = "Forbidden"
                        THEN <<"ctx.send:role_not_high_enough">>
                        ELSE <<"log.exception">>),
                   "failed")
            /\ UNCHANGED <<members, bans>>
       ELSE IF unbanOutcome # "ok"
       THEN /\ members' = members \ {member}
            /\ bans' = bans \cup {member}
            /\ last' = Invocation("softban", author, "Member", member,
                   <<"guild.ban", "guild.unban", "log.exception">>,
                   "failed")
       ELSE /\ members' = members \ {member}
            /\ bans' = bans \ {member}
            /\ last' = Invocation("softban", author, "Member", member,
                   <<"guild.ban", "guild.unban", "modlog.create_case",
                                      "transform_message", "ctx.send:message">>,
                   "done")
    /\ UNCHANGED <<current_tempbans, banned_until>>
    /\ UNCHANGED <<phase, renderVars, convertVars, tasks>>

\* Mod.ban_user, for a member of the guild.
BanMember(author, member, days, allowed, botBelow, outcome, create_modlog_case) ==
    LET refusal == member_checks(author, member, allowed, botBelow) IN
    /\ author \in members /\ member \in members
    /\ IF ~(0 <= days /\ days <= 7)
       THEN /\ last' = Invocation("ban_user", author, "Member", member,
                                  <<>>, "False:invalid_days")
            /\ UNCHANGED <<members, bans>>
       ELSE IF refusal # ""
       THEN /\ last' = Invocation("ban_user", author, "Member", member,
                                  <<>>, "False:" \o refusal)
            /\ UNCHANGED <<members, bans>>
       ELSE IF outcome # "ok"
       THEN /\ last' = Invocation("ban_user", author, "Member", member,
                   <<"guild.ban">>, "False:" \o outcome)
            /\ UNCHANGED <<members, bans>>
       ELSE /\ members' = members \ {member}
            /\ bans' = bans \cup {member}
            /\ last' = Invocation("ban_user", author, "Member", member,
                   <<"guild.ban", "transform_message">> \o
                       (IF create_modlog_case
                        THEN <<"modlog.create_case">> ELSE <<>>),
                   "True:message")
    /\ UNCHANGED <<current_tempbans, banned_until>>
    /\ UNCHANGED <<phase, renderVars, convertVars, tasks>>

\* Mod.ban_user, for a user or a bare id object (kind is "User" or "Object").
BanNonMember(author, kind, id, days, outcome, create_modlog_case) ==
    /\ author \in members
    /\ id = GuildOwner => outcome # "ok"        \* the owner cannot be banned
    /\ IF ~(0 <= days /\ days <= 7)
       THEN /\ last' = Invocation("ban_user", author, kind, id,
                                  <<>>, "False:invalid_days")
            /\ UNCHANGED <<members, bans, current_tempbans>>
       ELSE IF id \in bans /\ ~InList(id, current_tempbans)
       THEN /\ last' = Invocation("ban_user", author, kind, id,
                                  <<"guild.fetch_ban">>, "False:already_banned")
            /\ UNCHANGED <<members, bans, current_tempbans>>
       ELSE IF id \in bans
       THEN /\ current_tempbans' = Remove(current_tempbans, id)
            /\ last' = Invocation("ban_user", author, kind, id,
                   <<"guild.fetch_ban", "current_tempbans.remove">> \o
                       (IF create_modlog_case
                        THEN <<"modlog.create_case">> ELSE <<>>),
                   "True:upgraded")
            /\ UNCHANGED <<members, bans>>
       ELSE IF outcome # "ok"
       THEN /\ last' = Invocation("ban_user", author, kind, id,
                   <<"guild.fetch_ban", "guild.ban">>, "False:" \o outcome)
            /\ UNCHANGED <<members, bans, current_tempbans>>
       ELSE /\ members' = members \ {id}
            /\ bans' = bans \cup {id}
            /\ last' = Invocation("ban_user", author, kind, id,
                   <<"guild.fetch_ban", "guild.ban", "transform_message">> \o
                       (IF create_modlog_case
                        THEN <<"modlog.create_case">> ELSE <<>>),
                   "True:message")
            /\ UNCHANGED current_tempbans
    /\ UNCHANGED banned_until
    /\ UNCHANGED <<phase, renderVars, convertVars, tasks>>

\* A faulty variant of unban: the case is created outside the else clause,
\* also when guild.unban failed.
Unban_case_always(author, user_id, outcome, reinvite) ==
    /\ author \in members
    /\ IF user_id \notin bans
       THEN /\ last' = Invocation("unban", author, "Object", user_id,
                   <<"guild.fetch_ban", "ctx.send:not_banned">>, "refused")
            /\ UNCHANGED bans
       ELSE IF outcome # "ok"
       THEN /\ last' = Invocation("unban", author, "Object", user_id,
                   <<"guild.fetch_ban", "guild.unban", "ctx.send:unban_failed",
                     "modlog.create_case">>,
                   "failed")
            /\ UNCHANGED bans
       ELSE /\ bans' = bans \ {user_id}
            /\ last' = Invocation("unban", author, "Object", user_id,
                   <<"guild.fetch_ban", "guild.unban", "modlog.create_case",
                     "transform_message", "ctx.send:message">> \o
                       (IF reinvite THEN <<"reinvite">> ELSE <<>>),
                   "done")
    /\ UNCHANGED <<members, current_tempbans, banned_until>>
    /\ UNCHANGED <<phase, renderVars, convertVars, tasks>>

\* Mod.unban; reinvite is the reinvite_on_unban step after a successful unban.
Unban(author, user_id, outcome, reinvite) ==
    /\ author \in members
    /\ IF user_id \notin bans
       THEN /\ last' = Invocation("unban", author, "Object", user_id,
                   <<"guild.fetch_ban", "ctx.send:not_banned">>, "refused")
            /\ UNCHANGED bans
       ELSE IF outcome # "ok"
       THEN /\ last' = Invocation("unban", author, "Object", user_id,
                   <<"guild.fetch_ban", "guild.unban", "ctx.send:unban_failed">>,
                   "failed")
            /\ UNCHANGED bans
       ELSE /\ bans' = bans \ {user_id}
            /\ last' = Invocation("unban", author, "Object", user_id,
                   <<"guild.fetch_ban", "guild.unban", "modlog.create_case",
                     "transform_message", "ctx.send:message">> \o
                       (IF reinvite THEN <<"reinvite">> ELSE <<>>),
                   "done")
    /\ UNCHANGED <<members, current_tempbans, banned_until>>
    /\ UNCHANGED <<phase, renderVars, convertVars, tasks>>

DayCounts == {0, 8}

Next ==
    \/ \E author, member \in Ids, allowed, botBelow \in BOOLEAN,
          outcome \in {"ok", "Forbidden", "Exception"} :
          Kick(author, member, allowed, botBelow, outcome)
    \/ \E author, member \in Ids, days \in DayCounts, allowed, botBelow \in BOOLEAN,
          outcome \in {"ok", "Forbidden", "HTTPException"} :
          Tempban(author, member, days, allowed, botBelow, outcome)
    \/ \E author, member \in Ids, allowed \in BOOLEAN,
          outcome \in {"ok", "Forbidden", "HTTPException"},
          unbanOutcome \in {"ok", "HTTPException"} :
          Softban(author, member, allowed, outcome, unbanOutcome)
    \/ \E author, member \in Ids, days \in DayCounts,
          allowed, botBelow, create_modlog_case \in BOOLEAN,
          outcome \in {"ok", "Forbidden", "NotFound", "Exception"} :
          BanMember(author, member, days, allowed, botBelow, outcome,
                    create_modlog_case)
    \/ \E author, id \in Ids, kind \in {"User", "Object"}, days \in DayCounts,
          create_modlog_case \in BOOLEAN,
          outcome \in {"ok", "Forbidden", "NotFound", "Exception"} :
          BanNonMember(author, kind, id, days, outcome, create_modlog_case)
    \/ \E author, user_id \in Ids, reinvite \in BOOLEAN,
          outcome \in {"ok", "HTTPException"} :
          Unban(author, user_id, outcome, reinvite)

Spec == InitGuild /\ [][Next]_vars

----------------------------------------------------------------------------
(* SpecBanUser: ban_user for non-members, one step per await *)

Tasks == 1..MaxTasks

\* A ban_user invocation: where it is, its arguments, its local tempbans and
\* removed_temp, the calls it made, and what it returned or raised.
Task(pc, id, create, tempbans, removed_temp, events, result) ==
    [pc |-> pc, id |-> id, create_modlog_case |-> create, tempbans |-> tempbans,
     removed_temp |-> removed_temp, events |-> events, result |-> result]

NotCalled == Task("idle", 0, FALSE, <<>>, FALSE, <<>>, "none")

InitBanUser ==
    /\ bans \in SUBSET (Ids \ {GuildOwner})
    /\ members = Ids \ bans
    /\ current_tempbans \in {l \in ListsOver(bans, MaxTempbans) : NoRepeat(l)}
    /\ banned_until = {}
    /\ last = Invocation("none", 0, "none", 0, <<>>, "none")
    /\ tasks = [t \in Tasks |-> NotCalled]
    /\ phase = "run"
    /\ IdleRender
    /\ IdleConvert

BanUserFrame == UNCHANGED <<phase, renderVars, convertVars, banned_until, last>>

\* The call, up to tempbans = await self.config.guild(guild).current_tempbans()
BanUserReadTempbans(t, id, create) ==
    /\ tasks[t].pc = "idle"
    /\ members # {}
    /\ tasks' = [tasks EXCEPT ![t] =
           Task("fetch_ban", id, create, current_tempbans, FALSE, <<>>, "none")]
    /\ UNCHANGED <<members, bans, current_tempbans>>
    /\ BanUserFrame

\* await guild.fetch_ban(user), and the test of user.id against the
\* tempbans read before it.
BanUserFetchBan(t) ==
    LET T == tasks[t] IN
    /\ T.pc = "fetch_ban"
    /\ tasks' = [tasks EXCEPT ![t] =
           IF T.id \notin bans
           THEN [T EXCEPT !.pc = "ban", !.events = Append(@, "guild.fetch_ban")]
           ELSE IF InList(T.id, T.tempbans)
           THEN [T EXCEPT !.pc = "remove", !.events = Append(@, "guild.fetch_ban")]
           ELSE [T EXCEPT !.pc = "done", !.events = Append(@, "guild.fetch_ban"),
                          !.result = "False:already_banned"]]
    /\ UNCHANGED <<members, bans, current_tempbans>>
    /\ BanUserFrame

\* async with self.config.guild(guild).current_tempbans() as tempbans:
\*     tempbans.remove(user.id)
\* The list is read anew, under the lock of the value; list.remove raises
\* ValueError when the id is not in it, and nothing in ban_user catches it.
BanUserRemoveTempban(t) ==
    LET T == tasks[t] IN
    /\ T.pc = "remove"
    /\ IF InList(T.id, current_tempbans)
       THEN /\ current_tempbans' = Remove(current_tempbans, T.id)
            /\ tasks' = [tasks EXCEPT ![t] =
                   [T EXCEPT !.pc = "case", !.removed_temp = TRUE,
                             !.tempbans = Remove(current_tempbans, T.id),
                             !.events = Append(@, "current_tempbans.remove"),
                             !.result = "True:upgraded"]]
       ELSE /\ tasks' = [tasks EXCEPT ![t] =
                   [T EXCEPT !.pc = "done", !.tempbans = current_tempbans,
                             !.events = Append(@, "current_tempbans.remove"),
                             !.result = "raise:ValueError"]]
            /\ UNCHANGED current_tempbans
    /\ UNCHANGED <<members, bans>>
    /\ BanUserFrame

\* await guild.ban(user, ...) and the rendering of the ban message.
BanUserBan(t, outcome) ==
    LET T == tasks[t] IN
    /\ T.pc = "ban"
    /\ T.id = GuildOwner => outcome # "ok"       \* the owner cannot be banned
    /\ IF outcome = "ok"
       THEN /\ bans' = bans \cup {T.id}
            /\ members' = members \ {T.id}
            /\ tasks' = [tasks EXCEPT ![t] =
                   [T EXCEPT !.pc = "case",
                             !.events = @ \o <<"guild.ban", "transform_message">>,
                             !.result = "True:message"]]
       ELSE /\ tasks' = [tasks EXCEPT ![t] =
                   [T EXCEPT !.pc = "done", !.events = Append(@, "guild.ban"),
                             !.result = "False:" \o outcome]]
            /\ UNCHANGED <<members, bans>>
    /\ UNCHANGED current_tempbans
    /\ BanUserFrame

\* if create_modlog_case: await modlog.create_case(...); return True, message
BanUserCreateCase(t) ==
    LET T == tasks[t] IN
    /\ T.pc = "case"
    /\ tasks' = [tasks EXCEPT ![t] =
           [T EXCEPT !.pc = "done",
                     !.events = IF T.create_modlog_case
                                THEN Append(@, "modlog.create_case") ELSE @]]
    /\ UNCHANGED <<members, bans, current_tempbans>>
    /\ BanUserFrame

NextBanUser ==
    \/ \E t \in Tasks, id \in Ids, create \in BOOLEAN : BanUserReadTempbans(t, id, create)
    \/ \E t \in Tasks : BanUserFetchBan(t)
    \/ \E t \in Tasks : BanUserRemoveTempban(t)
    \/ \E t \in Tasks, outcome \in {"ok", "Forbidden", "NotFound", "Exception"} :
          BanUserBan(t, outcome)
    \/ \E t \in Tasks : BanUserCreateCase(t)

SpecBanUser == InitBanUser /\ [][NextBanUser]_vars

----------------------------------------------------------------------------
(* What the template engine is specified to compute *)

\* An expression that resolves to nothing in a context: an unknown name, a
\* malformed path, a private attribute, a missing attribute.
Unresolvable(e, objs) ==
    /\ e \notin DOMAIN objs
    /\ LET parts == split(e) IN
       \/ Len(parts) # 2
       \/ parts[1] \notin DOMAIN objs
       \/ (Len(parts[2]) >= 1 /\ parts[2][1] = "_")
       \/ parts[2] \notin DOMAIN objs[parts[1]].attrs

\* The string a single placeholder {e} stands for.
Resolved(e, objs) ==
    IF e \in DOMAIN objs THEN objs[e].str
    ELSE IF Unresolvable(e, objs) THEN Placeholder(e)
    ELSE LET parts == split(e) IN objs[parts[1]].attrs[parts[2]]

\* The template with every placeholder replaced at once: the text put in for
\* one placeholder is never looked at again.
RECURSIVE SimultaneousFrom(_, _, _)
SimultaneousFrom(s, i, objs) ==
    IF i > Len(s) THEN <<>>
    ELSE IF s[i] # "{" THEN <<s[i]>> \o SimultaneousFrom(s, i + 1, objs)
    ELSE LET j == IndexFrom(s, "}", i + 1) IN
         IF j = 0 THEN SubSeq(s, i, Len(s))
         ELSE IF j = i + 1 THEN <<"{">> \o SimultaneousFrom(s, i + 1, objs)
         ELSE Resolved(SubSeq(s, i + 1, j - 1), objs)
                  \o SimultaneousFrom(s, j + 1, objs)

Simultaneous(s, objs) == SimultaneousFrom(s, 1, objs)

Chars == {"{", "}", ".", "_", "a", "b", "c", "p", "r", "s", "t", "v", "w", "x", "y"}

IsString(v) == v \in Seq(Chars)

\* The contexts that differ from objs only in the values of the attributes
\* whose name starts with an underscore.
PrivateVariants(objs) ==
    { c \in Contexts :
        /\ DOMAIN c = DOMAIN objs
        /\ \A n \in DOMAIN c :
             /\ c[n].str = objs[n].str
             /\ DOMAIN c[n].attrs = DOMAIN objs[n].attrs
             /\ \A an \in DOMAIN c[n].attrs :
                  ~(Len(an) >= 1 /\ an[1] = "_") => c[n].attrs[an] = objs[n].attrs[an] }

----------------------------------------------------------------------------
(* Claims about the template engine, under SpecRender *)

\* C1: transform_message returns the original template with every
\* placeholder occurrence replaced by its resolved (or fallback) string, all
\* replacements made at once: inserted text is never substituted again and
\* the order of the placeholders does not matter.
C1_SimultaneousSubstitution ==
    phase = "done" => rendered = Return(Simultaneous(message, objects))

\* C2: attributes whose name starts with an underscore are never exposed:
\* contexts that differ only in the values of such attributes render every
\* template to the same string, and {a._p} renders to itself even when the
\* attribute exists.
C2_PrivateNeverExposed ==
    phase = "done" =>
        /\ \A c \in PrivateVariants(objects) : transform_message(message, c) = rendered
        /\ message = Placeholder(NameA \o <<".">> \o AttrP) => rendered = Return(message)

C2_Witness ==
    /\ phase = "done"
    /\ message = Placeholder(NameA \o <<".">> \o AttrP)
    /\ NameA \in DOMAIN objects
    /\ AttrP \in DOMAIN objects[NameA].attrs
    /\ Cardinality(PrivateVariants(objects)) >= 2
    /\ rendered = Return(message)

C4_BareName ==
    phase = "done" =>
        \A name \in BareExprs :
            message = Placeholder(name) =>
                rendered = Return(IF name \in DOMAIN objects
                                  THEN objects[name].str ELSE message)

C4_Witness ==
    /\ phase = "done"
    /\ message = Placeholder(NameA)
    /\ NameA \in DOMAIN objects
    /\ objects[NameA].str = TextAT
    /\ rendered = Return(TextAT)

\* C5: for a second part that does not start with an underscore, the
\* template {first.second} renders to the string form of that attribute of
\* context[first] when first is a key and the attribute exists, and to
\* {first.second} unchanged when the attribute does not exist or first is no
\* key.
C5_Dotted ==
    phase = "done" =>
        \A first \in {NameA, NameB, NameC}, second \in {AttrX, AttrY} :
            message = Placeholder(first \o <<".">> \o second) =>
                rendered = Return(IF /\ first \in DOMAIN objects
                                     /\ second \in DOMAIN objects[first].attrs
                                  THEN objects[first].attrs[second] ELSE message)

C5_Witness ==
    /\ phase = "done"
    /\ message = Placeholder(NameA \o <<".">> \o AttrX)
    /\ NameA \in DOMAIN objects
    /\ AttrX \in DOMAIN objects[NameA].attrs
    /\ rendered = Return(objects[NameA].attrs[AttrX])

\* C6: an expression that is no context key and does not split on the dot
\* into exactly two non-empty parts (a.x.y, a., .x) is emitted unchanged,
\* braces included, even when the part before the first dot is a key.
C6_MalformedFallsBack ==
    phase = "done" =>
        \A e \in Exprs :
            (/\ message = Placeholder(e)
             /\ e \notin DOMAIN objects
             /\ LET parts == split(e) IN
                ~(Len(parts) = 2 /\ parts[1] # <<>> /\ parts[2] # <<>>))
                => rendered = Return(message)

C6_Witness ==
    /\ phase = "done"
    /\ message = Placeholder(NameA \o <<".">> \o AttrX \o <<".">> \o AttrY)
    /\ NameA \in DOMAIN objects
    /\ AttrX \in DOMAIN objects[NameA].attrs
    /\ rendered = Return(message)

\* C7: when {e} occurs twice in a template, each occurrence is replaced by
\* the string a single occurrence gets, the result of rendering {e} alone.
C7_IdenticalPlaceholders ==
    phase = "done" =>
        \A e \in Exprs :
            message = Placeholder(e) \o Placeholder(e) =>
                LET single == transform_message(Placeholder(e), objects).val IN
                rendered = Return(single \o single)

\* C8: a template with no placeholder, or whose placeholders are all
\* unresolvable in the context, is returned unchanged, and rendering the
\* output again returns the same string.
C8_FallbackIdentity ==
    phase = "done" =>
        LET results == findall(message) IN
        (\A k \in 1..Len(results) : Unresolvable(results[k], objects))
            => /\ rendered = Return(message)
               /\ transform_message(rendered.val, objects) = rendered

C8_Witness ==
    /\ phase = "done"
    /\ message = Placeholder(NameC) \o Placeholder(NameA \o <<".">> \o AttrP)
    /\ NameA \in DOMAIN objects
    /\ AttrP \in DOMAIN objects[NameA].attrs
    /\ rendered = Return(message)

----------------------------------------------------------------------------
(* Claims about the converter, under SpecConvert *)

\* s is a decimal id of 15 to 20 digits and nothing else.
WholeId(s) ==
    /\ Len(s) >= IdMinDigits
    /\ Len(s) <= IdMaxDigits
    /\ \A i \in 1..Len(s) : s[i] \in DigitChars

\* s is <@id> or <@!id> for such an id, and nothing else.
WholeMention(s) ==
    \E d \in {3, 4} :
        /\ Len(s) > d
        /\ SubSeq(s, 1, d - 1) \in {<<"<", "@">>, <<"<", "@", "!">>}
        /\ s[Len(s)] = ">"
        /\ WholeId(SubSeq(s, d, Len(s) - 1))

IdOf(s) == IF WholeId(s) THEN s ELSE SubSeq(s, IF s[3] = "!" THEN 4 ELSE 3, Len(s) - 1)

\* C10: convert returns the integer id exactly when the whole argument is a
\* decimal id of 15 to 20 digits or a mention <@id> / <@!id> wrapping such an
\* id, and raises BadArgument for every other argument.
C10_ConvertAcceptsOnlyIds ==
    phase = "done" =>
        IF WholeId(argument) \/ WholeMention(argument)
        THEN converted = Return(int(IdOf(argument)))
        ELSE converted = Raise("BadArgument")

----------------------------------------------------------------------------
(* Claims about the moderation commands, under Spec *)

Called(e) == InList(e, last.events)

\* C9: in kick, tempban, softban and ban_user, whenever the target is the
\* invoking author (a member, a user or a bare id object), the operation
\* refuses: no guild.kick or guild.ban call is made, no tempban bookkeeping
\* is written, no mod-log case is created and no success message is rendered.
C9_SelfActionRefused ==
    (/\ last.op \in {"kick", "tempban", "softban", "ban_user"}
     /\ last.id = last.author)
        => /\ ~Called("guild.kick")
           /\ ~Called("guild.ban")
           /\ ~Called("banned_until.set")
           /\ ~Called("current_tempbans.append")
           /\ ~Called("modlog.create_case")
           /\ ~Called("transform_message")

----------------------------------------------------------------------------
(* Claims about concurrent ban_user invocations, under SpecBanUser *)

\* C12: when ban_user invocations for the same banned, temp-banned
\* non-member id interleave at their awaits, every invocation ends by
\* returning a (bool, message) pair, none fails while removing an id that is
\* no longer in the list, and after an upgrade the id is not in
\* current_tempbans.
C12_UpgradeSafeUnderInterleaving ==
    \A t \in Tasks :
        tasks[t].pc = "done" =>
            /\ tasks[t].result \in
                   {"True:upgraded", "True:message", "False:already_banned",
                    "False:Forbidden", "False:NotFound", "False:Exception"}
            /\ tasks[t].removed_temp => ~InList(tasks[t].id, current_tempbans)

----------------------------------------------------------------------------
(* Claims about mod-log cases, under Spec *)

\* The first index of e in l, or 0.
RECURSIVE FirstIndex(_, _, _)
FirstIndex(e, l, i) ==
    IF i > Len(l) THEN 0 ELSE IF l[i] = e THEN i ELSE FirstIndex(e, l, i + 1)

\* a was called, and before the first call of b.
Before(a, b) ==
    /\ FirstIndex(a, last.events, 1) > 0
    /\ FirstIndex(a, last.events, 1) < FirstIndex(b, last.events, 1)

CaseCount == Cardinality({i \in 1..Len(last.events) : last.events[i] = "modlog.create_case"})

\* The invocation ended with its success message.
Succeeded == last.result \in {"done", "True:message", "True:upgraded"}

\* The guild action of the invocation was called before the case and its
\* effect on the target is there.
GuildActionBeforeCase ==
    CASE last.op = "kick" ->
             Before("guild.kick", "modlog.create_case") /\ last.id \notin members
      [] last.op \in {"tempban", "ban_user"} ->
             Before("guild.ban", "modlog.create_case") /\ last.id \in bans
      [] last.op = "softban" ->
             /\ Before("guild.ban", "guild.unban")
             /\ Before("guild.unban", "modlog.create_case")
             /\ last.id \notin bans
      [] last.op = "unban" ->
             Before("guild.unban", "modlog.create_case") /\ last.id \notin bans
      [] OTHER -> FALSE

\* ban_user found the non-member banned and in current_tempbans, and took
\* the id off the list: it makes no guild.ban call.
UpgradeBeforeCase ==
    /\ last.op = "ban_user"
    /\ last.kind # "Member"
    /\ last.result = "True:upgraded"
    /\ Before("current_tempbans.remove", "modlog.create_case")
    /\ ~Called("guild.ban")
    /\ last.id \in bans
    /\ ~InList(last.id, current_tempbans)

ModlogOps == {"kick", "tempban", "softban", "unban", "ban_user"}

\* C13, as claimed: modlog.create_case is called at most once per
\* invocation and only after the guild action of that invocation has
\* returned without error; an invocation that is refused or whose guild call
\* fails creates no case and renders no success message.
C13_CaseOnlyAfterGuildAction ==
    last.op \in ModlogOps =>
        /\ CaseCount <= 1
        /\ CaseCount = 1 => (Succeeded /\ GuildActionBeforeCase)
        /\ ~Succeeded => /\ CaseCount = 0
                         /\ ~Called("transform_message")
                         /\ ~Called("ctx.send:message")

\* C13, amended: as claimed, except that ban_user also creates the case,
\* with no guild.ban call, when it upgrades the tempban of an already banned
\* non-member by taking the id off current_tempbans.
C13_CaseAfterGuildActionOrUpgrade ==
    last.op \in ModlogOps =>
        /\ CaseCount <= 1
        /\ CaseCount = 1 => (Succeeded /\ (GuildActionBeforeCase \/ UpgradeBeforeCase))
        /\ ~Succeeded => /\ CaseCount = 0
                         /\ ~Called("transform_message")
                         /\ ~Called("ctx.send:message")

C13_Witness ==
    /\ last.op = "ban_user"
    /\ CaseCount = 1
    /\ UpgradeBeforeCase

====
